---- MODULE Spec2Model ----
(***************************************************************************)
(* Model of the n-puzzle solver of n-puzzle.ipynb: the puzzle primitives   *)
(* (available_actions, do_action, manhattan_distance, is_solvable), the    *)
(* randomizer, main's generate-and-check loop and bidirectional_a_star.    *)
(*                                                                         *)
(* A puzzle state (np.ndarray of shape (PUZZLE_DIM, PUZZLE_DIM)) is a      *)
(* function from <<x, y>> (0-based, as in the code) to the cell value.     *)
(* A dictionary / set key (ndarray.tobytes()) is the sequence of the       *)
(* bytes of the cells in row-major order, ITEMSIZE little-endian bytes     *)
(* per cell.                                                               *)
(***************************************************************************)
EXTENDS Integers, Sequences, FiniteSets, Bags, TLC

\* ----------------------------------------------------------------- bounds
\* Board sizes explored: 2 .. MaxDim.
MaxDim == 3
\* Half of the length of the random walk of randomize_puzzle.
HalfSteps == 2
\* ------------------------------------------------------ program constants
\* RANDOMIZE_STEPS = 100_000 in the notebook: an even number of moves; the
\* model keeps it even and scales it down.
RANDOMIZE_STEPS == 2 * HalfSteps
\* Width in bytes of one cell of an int ndarray (dtype=int).
ITEMSIZE == 8
\* Python's None (as a dictionary value and as meeting_node).
None == << >>

Dims == 2 .. MaxDim

VARIABLES
  PUZZLE_DIM,          \* the global board dimension
  pc,                  \* control position
  entry,               \* "main": main() drives the search; "call": direct call
  state,               \* main's / randomize_puzzle's local state
  steps,               \* moves done so far by randomize_puzzle's loop
  initial_state,       \* argument of bidirectional_a_star
  open_forward, came_from_forward, g_score_forward,
  open_backward, came_from_backward, g_score_backward,
  explored_forward, explored_backward,
  nodes_evaluated, meeting_node,
  full_path,           \* the list built by the path reconstruction
  ret,                 \* "pending", "none" (return None, n) or "path"
  pops_forward,        \* history: heappop(open_forward) calls so far
  pops_backward        \* history: heappop(open_backward) calls so far

vars == << PUZZLE_DIM, pc, entry, state, steps, initial_state,
           open_forward, came_from_forward, g_score_forward,
           open_backward, came_from_backward, g_score_backward,
           explored_forward, explored_backward,
           nodes_evaluated, meeting_node, full_path, ret,
           pops_forward, pops_backward >>

searchVars == << open_forward, came_from_forward, g_score_forward,
                 open_backward, came_from_backward, g_score_backward,
                 explored_forward, explored_backward,
                 nodes_evaluated, meeting_node, full_path, ret,
           pops_forward, pops_backward >>

\* ------------------------------------------------------------- primitives
Pos(n) == (0 .. n - 1) \X (0 .. n - 1)

Abs(i) == IF i < 0 THEN -i ELSE i

\* np.array([i for i in range(1, n**2)] + [0]).reshape((n, n))
GoalState(n) ==
  [p \in Pos(n) |-> IF p[1] * n + p[2] = n * n - 1 THEN 0 ELSE p[1] * n + p[2] + 1]

\* state.flatten(): the cells in row-major order (1-based sequence).
flatten(s, n) == [i \in 1 .. n * n |-> s[<< (i - 1) \div n, (i - 1) % n >>]]

\* seq.reshape((n, n))
reshape(flat, n) == [p \in Pos(n) |-> flat[p[1] * n + p[2] + 1]]

\* ndarray.tobytes(): ITEMSIZE little-endian bytes per cell, row-major.
RECURSIVE ByteOf(_, _)
ByteOf(v, k) == IF k = 0 THEN v % 256 ELSE ByteOf(v \div 256, k - 1)

tobytes(s, n) ==
  [b \in 1 .. ITEMSIZE * n * n |->
     ByteOf(flatten(s, n)[((b - 1) \div ITEMSIZE) + 1], (b - 1) % ITEMSIZE)]

RECURSIVE WordAt(_, _, _)
WordAt(bytes, c, k) ==
  IF k = ITEMSIZE THEN 0
  ELSE bytes[c * ITEMSIZE + k + 1] + 256 * WordAt(bytes, c, k + 1)

\* np.frombuffer(key, dtype=int).reshape((PUZZLE_DIM, PUZZLE_DIM))
frombuffer(bytes, n) == [p \in Pos(n) |-> WordAt(bytes, p[1] * n + p[2], 0)]

\* np.argwhere(state == 0)[0]: the first zero cell in row-major order.
BlankPos(s, n) ==
  CHOOSE p \in Pos(n) :
    /\ s[p] = 0
    /\ \A q \in Pos(n) : s[q] = 0 => p[1] * n + p[2] <= q[1] * n + q[2]

Action(p1, p2) == [pos1 |-> p1, pos2 |-> p2]

\* Variant: the move to the right is never offered.
available_actionsNoRight(s, n) ==
  LET b == BlankPos(s, n)
      x == b[1]
      y == b[2]
  IN  (IF x > 0     THEN << Action(<<x, y>>, <<x - 1, y>>) >> ELSE << >>) \o
      (IF x < n - 1 THEN << Action(<<x, y>>, <<x + 1, y>>) >> ELSE << >>) \o
      (IF y > 0     THEN << Action(<<x, y>>, <<x, y - 1>>) >> ELSE << >>)

available_actions(s, n) ==
  LET b == BlankPos(s, n)
      x == b[1]
      y == b[2]
  IN  (IF x > 0     THEN << Action(<<x, y>>, <<x - 1, y>>) >> ELSE << >>) \o
      (IF x < n - 1 THEN << Action(<<x, y>>, <<x + 1, y>>) >> ELSE << >>) \o
      (IF y > 0     THEN << Action(<<x, y>>, <<x, y - 1>>) >> ELSE << >>) \o
      (IF y < n - 1 THEN << Action(<<x, y>>, <<x, y + 1>>) >> ELSE << >>)

\* Variant: the swap is written without keeping the old value of pos1, both
\* cells end up with the value of pos2.
do_actionOverwrite(s, a) ==
  [s EXCEPT ![a.pos1] = s[a.pos2], ![a.pos2] = s[a.pos2]]

do_action(s, a) ==
  [s EXCEPT ![a.pos1] = s[a.pos2], ![a.pos2] = s[a.pos1]]

\* Variant: the "if value != 0" test is missing, the blank is summed like a
\* tile (its target is divmod(-1, n)).
RECURSIVE SumDistWithBlank(_, _, _)
SumDistWithBlank(s, n, i) ==
  IF i = n * n THEN 0
  ELSE LET x == i \div n
           y == i % n
           value == s[<<x, y>>]
       IN  Abs(x - ((value - 1) \div n)) + Abs(y - ((value - 1) % n))
             + SumDistWithBlank(s, n, i + 1)

RECURSIVE SumDist(_, _, _)
SumDist(s, n, i) ==
  IF i = n * n THEN 0
  ELSE LET x == i \div n
           y == i % n
           value == s[<<x, y>>]
       IN  (IF value # 0
            THEN Abs(x - ((value - 1) \div n)) + Abs(y - ((value - 1) % n))
            ELSE 0) + SumDist(s, n, i + 1)

\* Variant: the heuristic is weighted by three (no longer a lower bound).
manhattan_distanceTripled(s, n) == 3 * SumDist(s, n, 0)

manhattan_distance(s, n) == SumDist(s, n, 0)

Inversions(flat) ==
  Cardinality({ij \in (DOMAIN flat) \X (DOMAIN flat) :
                 /\ ij[1] < ij[2]
                 /\ flat[ij[1]] # 0
                 /\ flat[ij[2]] # 0
                 /\ flat[ij[1]] > flat[ij[2]]})

is_solvable(s, n) == Inversions(flatten(s, n)) % 2 = 0

\* ------------------------------------------------------ dictionaries, heap
\* d[k] = v
Put(d, k, v) == [x \in (DOMAIN d) \cup {k} |-> IF x = k THEN v ELSE d[x]]

\* d.get(k)
Get(d, k) == IF k \in DOMAIN d THEN d[k] ELSE None

\* Python's < on bytes objects: lexicographic on unsigned bytes, a proper
\* prefix being smaller.
BytesLess(a, b) ==
  \/ \E i \in 1 .. Len(a) :
       /\ i <= Len(b)
       /\ a[i] < b[i]
       /\ \A j \in 1 .. i - 1 : a[j] = b[j]
  \/ /\ Len(a) < Len(b)
     /\ \A j \in 1 .. Len(a) : a[j] = b[j]

\* Python's < on the (f, key) tuples held by the heaps.
TupleLess(e1, e2) ==
  \/ e1[1] < e2[1]
  \/ /\ e1[1] = e2[1]
     /\ BytesLess(e1[2], e2[2])

\* heappush(heap, item)
heappush(heap, item) == heap (+) SetToBag({item})

\* The item heappop(heap) returns: a smallest one.
HeapMin(heap) ==
  CHOOSE e \in BagToSet(heap) : \A o \in BagToSet(heap) : ~TupleLess(o, e)

\* The heap heappop(heap) leaves behind.
HeapRest(heap) == heap (-) SetToBag({HeapMin(heap)})

\* Truth value of a list used as a heap.
NonEmpty(heap) == BagToSet(heap) # {}

\* ----------------------------------------------------- one expansion loop
\* The body of "for action in available_actions(current_state)" run from the
\* i-th action on; acc holds the direction's g_score, open set, came_from
\* and the shared nodes_evaluated.
\* Variant: a neighbour is relaxed again when tentative_g equals its g_score.
RECURSIVE RelaxOnEqual(_, _, _, _, _, _)
RelaxOnEqual(acts, i, current, current_state, n, acc) ==
  IF i > Len(acts) THEN acc
  ELSE
    LET neighbor == do_action(current_state, acts[i])
        neighbor_bytes == tobytes(neighbor, n)
        tentative_g == acc.g[current] + 1
    IN  IF neighbor_bytes \notin DOMAIN acc.g \/ tentative_g <= acc.g[neighbor_bytes]
        THEN RelaxOnEqual(acts, i + 1, current, current_state, n,
                   [g     |-> Put(acc.g, neighbor_bytes, tentative_g),
                    open  |-> heappush(acc.open,
                                       << tentative_g + manhattan_distance(neighbor, n),
                                          neighbor_bytes >>),
                    came  |-> Put(acc.came, neighbor_bytes, current),
                    nodes |-> acc.nodes + 1])
        ELSE RelaxOnEqual(acts, i + 1, current, current_state, n, acc)

\* Variant: nodes_evaluated is incremented for every neighbour looked at,
\* relaxed or not.
RECURSIVE RelaxCountAll(_, _, _, _, _, _)
RelaxCountAll(acts, i, current, current_state, n, acc) ==
  IF i > Len(acts) THEN acc
  ELSE
    LET neighbor == do_action(current_state, acts[i])
        neighbor_bytes == tobytes(neighbor, n)
        tentative_g == acc.g[current] + 1
    IN  IF neighbor_bytes \notin DOMAIN acc.g \/ tentative_g < acc.g[neighbor_bytes]
        THEN RelaxCountAll(acts, i + 1, current, current_state, n,
                   [g     |-> Put(acc.g, neighbor_bytes, tentative_g),
                    open  |-> heappush(acc.open,
                                       << tentative_g + manhattan_distance(neighbor, n),
                                          neighbor_bytes >>),
                    came  |-> Put(acc.came, neighbor_bytes, current),
                    nodes |-> acc.nodes + 1])
        ELSE RelaxCountAll(acts, i + 1, current, current_state, n,
                   [acc EXCEPT !.nodes = acc.nodes + 1])

RECURSIVE Relax(_, _, _, _, _, _)
Relax(acts, i, current, current_state, n, acc) ==
  IF i > Len(acts) THEN acc
  ELSE
    LET neighbor == do_action(current_state, acts[i])
        neighbor_bytes == tobytes(neighbor, n)
        tentative_g == acc.g[current] + 1
    IN  IF neighbor_bytes \notin DOMAIN acc.g \/ tentative_g < acc.g[neighbor_bytes]
        THEN Relax(acts, i + 1, current, current_state, n,
                   [g     |-> Put(acc.g, neighbor_bytes, tentative_g),
                    open  |-> heappush(acc.open,
                                       << tentative_g + manhattan_distance(neighbor, n),
                                          neighbor_bytes >>),
                    came  |-> Put(acc.came, neighbor_bytes, current),
                    nodes |-> acc.nodes + 1])
        ELSE Relax(acts, i + 1, current, current_state, n, acc)

Expand(current, n, g, open, came, nodes) ==
  LET current_state == frombuffer(current, n)
  IN  Relax(available_actions(current_state, n), 1, current, current_state, n,
            [g |-> g, open |-> open, came |-> came, nodes |-> nodes])

\* ------------------------------------------------------ path reconstruction
\* node, came_from.get(node), ... up to the first None.
RECURSIVE Chain(_, _)
Chain(came, node) ==
  IF node = None THEN << >> ELSE << node >> \o Chain(came, Get(came, node))

Reverse(seq) == [i \in 1 .. Len(seq) |-> seq[Len(seq) + 1 - i]]

\* Variant: path_forward is not reversed before the concatenation.
ReconstructPathNoReverse(meeting, came_fwd, came_bwd) ==
  LET path_forward  == Chain(came_fwd, meeting)
      path_backward == Chain(came_bwd, Get(came_bwd, meeting))
  IN  path_forward \o path_backward

\* Variant: the backward walk starts at meeting_node itself.
ReconstructPathFromMeeting(meeting, came_fwd, came_bwd) ==
  LET path_forward  == Chain(came_fwd, meeting)
      path_backward == Chain(came_bwd, meeting)
  IN  Reverse(path_forward) \o path_backward

ReconstructPath(meeting, came_fwd, came_bwd) ==
  LET path_forward  == Chain(came_fwd, meeting)
      path_backward == Chain(came_bwd, Get(came_bwd, meeting))
  IN  Reverse(path_forward) \o path_backward

\* --------------------------------------------------------------- the inputs
\* Every arrangement of 0 .. n*n-1 on the board.
AllStates(n) ==
  { reshape(f, n) : f \in { h \in [1 .. n * n -> 0 .. n * n - 1] :
                             \A i, j \in 1 .. n * n : i # j => h[i] # h[j] } }

\* The states one legal move away from s.
Neighbours(s, n) ==
  { do_action(s, available_actions(s, n)[i]) : i \in 1 .. Len(available_actions(s, n)) }

\* The initial state of the notebook's recorded 3x3 run.
ScenarioState == reshape(<< 0, 3, 1, 6, 7, 5, 4, 8, 2 >>, 3)

\* A 3x3 state twelve moves away from the goal.
DetourState == reshape(<< 1, 2, 0, 4, 7, 3, 8, 5, 6 >>, 3)

\* A 3x3 state thirteen moves away from the goal whose search lowers a
\* g_score and later pops the entry the lowering left behind.
StaleState == reshape(<< 1, 0, 4, 7, 3, 2, 5, 8, 6 >>, 3)

\* The arguments offered to a direct call of bidirectional_a_star: on the
\* 2x2 board every arrangement, on larger boards the goal, its neighbours
\* and the three 3x3 states above.
Inputs(n) ==
  IF n = 2 THEN AllStates(n)
  ELSE {GoalState(n)} \cup Neighbours(GoalState(n), n)
         \cup (IF n = 3 THEN {ScenarioState, DetourState, StaleState} ELSE {})

\* ------------------------------------------------------------------- Init
Init ==
  /\ PUZZLE_DIM \in Dims
  /\ entry \in {"main", "call"}
  /\ pc = IF entry = "main" THEN "randomize" ELSE "call"
  /\ state = GoalState(PUZZLE_DIM)
  /\ steps = 0
  /\ initial_state \in IF entry = "main" THEN {GoalState(PUZZLE_DIM)}
                                         ELSE Inputs(PUZZLE_DIM)
  /\ open_forward = EmptyBag
  /\ came_from_forward = << >>
  /\ g_score_forward = << >>
  /\ open_backward = EmptyBag
  /\ came_from_backward = << >>
  /\ g_score_backward = << >>
  /\ explored_forward = {}
  /\ explored_backward = {}
  /\ nodes_evaluated = 0
  /\ meeting_node = None
  /\ full_path = << >>
  /\ ret = "pending"
  /\ pops_forward = 0
  /\ pops_backward = 0

\* ------------------------------------------------- randomize_puzzle, main
\* One iteration of randomize_puzzle's loop: a random legal move.
RandomizeStep ==
  /\ pc = "randomize"
  /\ steps < RANDOMIZE_STEPS
  /\ \E i \in 1 .. Len(available_actions(state, PUZZLE_DIM)) :
       state' = do_action(state, available_actions(state, PUZZLE_DIM)[i])
  /\ steps' = steps + 1
  /\ UNCHANGED << PUZZLE_DIM, pc, entry, initial_state >>
  /\ UNCHANGED searchVars

\* main: the randomized state passes is_solvable and is handed to the search.
MainAccept ==
  /\ pc = "randomize"
  /\ steps = RANDOMIZE_STEPS
  /\ is_solvable(state, PUZZLE_DIM)
  /\ initial_state' = state
  /\ pc' = "call"
  /\ UNCHANGED << PUZZLE_DIM, entry, state, steps >>
  /\ UNCHANGED searchVars

\* main: "Generated unsolvable state, trying again...": randomize_puzzle
\* starts over from the goal.
MainRetry ==
  /\ pc = "randomize"
  /\ steps = RANDOMIZE_STEPS
  /\ ~is_solvable(state, PUZZLE_DIM)
  /\ state' = GoalState(PUZZLE_DIM)
  /\ steps' = 0
  /\ UNCHANGED << PUZZLE_DIM, pc, entry, initial_state >>
  /\ UNCHANGED searchVars

\* --------------------------------------------------- bidirectional_a_star
\* Variant: g_score is not seeded with the root.
a_star_searchNoSeed(root, n) ==
  [open |-> heappush(EmptyBag, << manhattan_distance(root, n), tobytes(root, n) >>),
   came |-> Put(<< >>, tobytes(root, n), None),
   g    |-> << >>]

\* a_star_search: the open set, came_from and g_score of one direction.
a_star_search(root, n) ==
  [open |-> heappush(EmptyBag, << manhattan_distance(root, n), tobytes(root, n) >>),
   came |-> Put(<< >>, tobytes(root, n), None),
   g    |-> Put(<< >>, tobytes(root, n), 0)]

\* The code before the main loop.
SearchInit ==
  /\ pc = "call"
  /\ LET fwd == a_star_search(initial_state, PUZZLE_DIM)
         bwd == a_star_search(GoalState(PUZZLE_DIM), PUZZLE_DIM)
     IN  /\ open_forward' = fwd.open
         /\ came_from_forward' = fwd.came
         /\ g_score_forward' = fwd.g
         /\ open_backward' = bwd.open
         /\ came_from_backward' = bwd.came
         /\ g_score_backward' = bwd.g
  /\ explored_forward' = {}
  /\ explored_backward' = {}
  /\ nodes_evaluated' = 0
  /\ meeting_node' = None
  /\ pops_forward' = 0
  /\ pops_backward' = 0
  /\ pc' = "loop"
  /\ UNCHANGED << PUZZLE_DIM, entry, state, steps, initial_state, full_path, ret >>

\* The loop test succeeds and the forward half of the iteration runs ("if
\* open_forward" holds: the loop test has just held).
ForwardStep ==
  /\ pc = "loop"
  /\ NonEmpty(open_forward) /\ NonEmpty(open_backward)
  /\ LET current_fwd == HeapMin(open_forward)[2]
     IN  /\ explored_forward' = explored_forward \cup {current_fwd}
         /\ IF current_fwd \in explored_backward
            THEN /\ meeting_node' = current_fwd
                 /\ open_forward' = HeapRest(open_forward)
                 /\ pc' = "after"
                 /\ UNCHANGED << came_from_forward, g_score_forward, nodes_evaluated >>
            ELSE IF current_fwd \notin DOMAIN g_score_forward
            THEN /\ pc' = "raised"
                 /\ open_forward' = HeapRest(open_forward)
                 /\ UNCHANGED << meeting_node, came_from_forward, g_score_forward,
                                 nodes_evaluated >>
            ELSE LET r == Expand(current_fwd, PUZZLE_DIM, g_score_forward,
                                 HeapRest(open_forward), came_from_forward,
                                 nodes_evaluated)
                 IN  /\ g_score_forward' = r.g
                     /\ open_forward' = r.open
                     /\ came_from_forward' = r.came
                     /\ nodes_evaluated' = r.nodes
                     /\ pc' = "bwd"
                     /\ UNCHANGED meeting_node
  /\ pops_forward' = pops_forward + 1
  /\ UNCHANGED << PUZZLE_DIM, entry, state, steps, initial_state, open_backward,
                  came_from_backward, g_score_backward, explored_backward,
                  full_path, ret, pops_backward >>

\* Variant: the backward half runs only while its frontier is not the
\* larger one ("expand the smaller frontier").
BackwardStepIfSmaller ==
  /\ pc = "bwd"
  /\ IF /\ NonEmpty(open_backward)
        /\ BagCardinality(open_backward) <= BagCardinality(open_forward)
     THEN
       LET current_bwd == HeapMin(open_backward)[2]
       IN  /\ explored_backward' = explored_backward \cup {current_bwd}
           /\ pops_backward' = pops_backward + 1
           /\ IF current_bwd \in explored_forward
              THEN /\ meeting_node' = current_bwd
                   /\ open_backward' = HeapRest(open_backward)
                   /\ pc' = "after"
                   /\ UNCHANGED << came_from_backward, g_score_backward, nodes_evaluated >>
              ELSE IF current_bwd \notin DOMAIN g_score_backward
              THEN /\ pc' = "raised"
                   /\ open_backward' = HeapRest(open_backward)
                   /\ UNCHANGED << meeting_node, came_from_backward, g_score_backward,
                                   nodes_evaluated >>
              ELSE LET r == Expand(current_bwd, PUZZLE_DIM, g_score_backward,
                                   HeapRest(open_backward), came_from_backward,
                                   nodes_evaluated)
                   IN  /\ g_score_backward' = r.g
                       /\ open_backward' = r.open
                       /\ came_from_backward' = r.came
                       /\ nodes_evaluated' = r.nodes
                       /\ pc' = "loop"
                       /\ UNCHANGED meeting_node
     ELSE /\ pc' = "loop"
          /\ UNCHANGED << explored_backward, pops_backward, meeting_node, open_backward,
                          came_from_backward, g_score_backward, nodes_evaluated >>
  /\ UNCHANGED << PUZZLE_DIM, entry, state, steps, initial_state, open_forward,
                  came_from_forward, g_score_forward, explored_forward,
                  full_path, ret, pops_forward >>

\* Variant: "continue" in the place of "break": the meeting state is
\* recorded and the loop goes on.
BackwardStepContinue ==
  /\ pc = "bwd"
  /\ IF NonEmpty(open_backward)
     THEN
       LET current_bwd == HeapMin(open_backward)[2]
       IN  /\ explored_backward' = explored_backward \cup {current_bwd}
           /\ pops_backward' = pops_backward + 1
           /\ IF current_bwd \in explored_forward
              THEN /\ meeting_node' = current_bwd
                   /\ open_backward' = HeapRest(open_backward)
                   /\ pc' = "loop"
                   /\ UNCHANGED << came_from_backward, g_score_backward, nodes_evaluated >>
              ELSE IF current_bwd \notin DOMAIN g_score_backward
              THEN /\ pc' = "raised"
                   /\ open_backward' = HeapRest(open_backward)
                   /\ UNCHANGED << meeting_node, came_from_backward, g_score_backward,
                                   nodes_evaluated >>
              ELSE LET r == Expand(current_bwd, PUZZLE_DIM, g_score_backward,
                                   HeapRest(open_backward), came_from_backward,
                                   nodes_evaluated)
                   IN  /\ g_score_backward' = r.g
                       /\ open_backward' = r.open
                       /\ came_from_backward' = r.came
                       /\ nodes_evaluated' = r.nodes
                       /\ pc' = "loop"
                       /\ UNCHANGED meeting_node
     ELSE /\ pc' = "loop"
          /\ UNCHANGED << explored_backward, pops_backward, meeting_node, open_backward,
                          came_from_backward, g_score_backward, nodes_evaluated >>
  /\ UNCHANGED << PUZZLE_DIM, entry, state, steps, initial_state, open_forward,
                  came_from_forward, g_score_forward, explored_forward,
                  full_path, ret, pops_forward >>

\* The backward half of the iteration, guarded by "if open_backward".
BackwardStep ==
  /\ pc = "bwd"
  /\ IF NonEmpty(open_backward)
     THEN
       LET current_bwd == HeapMin(open_backward)[2]
       IN  /\ explored_backward' = explored_backward \cup {current_bwd}
           /\ pops_backward' = pops_backward + 1
           /\ IF current_bwd \in explored_forward
              THEN /\ meeting_node' = current_bwd
                   /\ open_backward' = HeapRest(open_backward)
                   /\ pc' = "after"
                   /\ UNCHANGED << came_from_backward, g_score_backward, nodes_evaluated >>
              ELSE IF current_bwd \notin DOMAIN g_score_backward
              THEN /\ pc' = "raised"
                   /\ open_backward' = HeapRest(open_backward)
                   /\ UNCHANGED << meeting_node, came_from_backward, g_score_backward,
                                   nodes_evaluated >>
              ELSE LET r == Expand(current_bwd, PUZZLE_DIM, g_score_backward,
                                   HeapRest(open_backward), came_from_backward,
                                   nodes_evaluated)
                   IN  /\ g_score_backward' = r.g
                       /\ open_backward' = r.open
                       /\ came_from_backward' = r.came
                       /\ nodes_evaluated' = r.nodes
                       /\ pc' = "loop"
                       /\ UNCHANGED meeting_node
     ELSE /\ pc' = "loop"
          /\ UNCHANGED << explored_backward, pops_backward, meeting_node, open_backward,
                          came_from_backward, g_score_backward, nodes_evaluated >>
  /\ UNCHANGED << PUZZLE_DIM, entry, state, steps, initial_state, open_forward,
                  came_from_forward, g_score_forward, explored_forward,
                  full_path, ret, pops_forward >>

\* The loop test fails: one of the open sets is empty.
LoopExit ==
  /\ pc = "loop"
  /\ ~(NonEmpty(open_forward) /\ NonEmpty(open_backward))
  /\ pc' = "after"
  /\ UNCHANGED << PUZZLE_DIM, entry, state, steps, initial_state >>
  /\ UNCHANGED searchVars

\* return None, nodes_evaluated
ReturnNone ==
  /\ pc = "after"
  /\ meeting_node = None
  /\ ret' = "none"
  /\ pc' = "done"
  /\ UNCHANGED << PUZZLE_DIM, entry, state, steps, initial_state,
                  open_forward, came_from_forward, g_score_forward,
                  open_backward, came_from_backward, g_score_backward,
                  explored_forward, explored_backward,
                  nodes_evaluated, meeting_node, full_path,
                  pops_forward, pops_backward >>

\* The path reconstruction and return full_path, nodes_evaluated
ReturnPath ==
  /\ pc = "after"
  /\ meeting_node # None
  /\ full_path' = ReconstructPath(meeting_node, came_from_forward, came_from_backward)
  /\ ret' = "path"
  /\ pc' = "done"
  /\ UNCHANGED << PUZZLE_DIM, entry, state, steps, initial_state,
                  open_forward, came_from_forward, g_score_forward,
                  open_backward, came_from_backward, g_score_backward,
                  explored_forward, explored_backward,
                  nodes_evaluated, meeting_node,
                  pops_forward, pops_backward >>

Next ==
  \/ RandomizeStep
  \/ MainAccept
  \/ MainRetry
  \/ SearchInit
  \/ ForwardStep
  \/ BackwardStep
  \/ LoopExit
  \/ ReturnNone
  \/ ReturnPath

Spec == Init /\ [][Next]_vars

\* ---------------------------------------------------- reference notions
\* The rules of the puzzle, stated without the program's move generator:
\* t arises from s by swapping the blank with an orthogonal in-bounds cell.
Adjacent(p, q) == Abs(p[1] - q[1]) + Abs(p[2] - q[2]) = 1

Swapped(s, p, q) == [r \in DOMAIN s |-> IF r = p THEN s[q] ELSE IF r = q THEN s[p] ELSE s[r]]

LegalMove(s, t, n) ==
  \E p, q \in Pos(n) : s[p] = 0 /\ Adjacent(p, q) /\ t = Swapped(s, p, q)

LegalSuccessors(s, n) ==
  LET p == CHOOSE r \in Pos(n) : s[r] = 0
  IN  { Swapped(s, p, q) : q \in { r \in Pos(n) : Adjacent(p, r) } }

\* Breadth-first search over the rules, grown from both ends in turn.
\* seenS is the set of states at most a moves from the origin, seenT the set
\* at most b moves from the target, frontS and frontT their outermost
\* layers.  A walk of k moves has a state a moves from its origin and k - a
\* from its end, so origin and target are at most a + b moves apart exactly
\* when the two sets meet; a + b grows by one per round, so the first round
\* at which they meet gives the distance.  -1: no walk exists.
RECURSIVE BreadthFirst(_, _, _, _, _, _, _)
BreadthFirst(frontS, seenS, a, frontT, seenT, b, n) ==
  IF seenS \cap seenT # {} THEN a + b
  ELSE IF a <= b
  THEN IF frontS = {} THEN -1
       ELSE LET next == (UNION { LegalSuccessors(s, n) : s \in frontS }) \ seenS
            IN  BreadthFirst(next, seenS \cup next, a + 1, frontT, seenT, b, n)
  ELSE IF frontT = {} THEN -1
       ELSE LET next == (UNION { LegalSuccessors(s, n) : s \in frontT }) \ seenT
            IN  BreadthFirst(frontS, seenS, a, next, seenT \cup next, b + 1, n)

\* The minimum number of legal moves from s to the goal (-1: none exists).
MinMoves(s, n) == BreadthFirst({s}, {s}, 0, {GoalState(n)}, {GoalState(n)}, 0, n)

ReachableFromGoal(s, n) == MinMoves(s, n) >= 0

\* MinMoves of every argument offered to a direct call, computed once.
InputDistance ==
  [p \in UNION { { << n, s >> : s \in Inputs(n) } : n \in Dims } |->
     MinMoves(p[2], p[1])]

\* MinMoves of the start state of the search in progress.
StartDistance ==
  IF entry = "call" THEN InputDistance[<< PUZZLE_DIM, initial_state >>]
  ELSE MinMoves(initial_state, PUZZLE_DIM)

\* The returned path as puzzle states (reconstruct_full_path).
PathStates == [i \in 1 .. Len(full_path) |-> frombuffer(full_path[i], PUZZLE_DIM)]

Returned == pc = "done"

MoveCount == Len(full_path) - 1

\* ------------------------------------------------------------------- C1
\* C1: whenever bidirectional_a_star returns a path, the path starts with
\* the start state, ends with the goal state, and each state of it arises
\* from the one before by one legal blank move.
C1_PathIsLegalWalk ==
  (Returned /\ ret = "path") =>
    /\ Len(full_path) >= 1
    /\ PathStates[1] = initial_state
    /\ PathStates[Len(full_path)] = GoalState(PUZZLE_DIM)
    /\ \A i \in 1 .. Len(full_path) - 1 :
         LegalMove(PathStates[i], PathStates[i + 1], PUZZLE_DIM)

\* A path was returned whose meeting state lies strictly inside it, so that
\* both parent chains contribute states.
C1_Witness ==
  /\ Returned /\ ret = "path"
  /\ Len(full_path) >= 4
  /\ meeting_node # full_path[1]
  /\ meeting_node # full_path[Len(full_path)]

\* ------------------------------------------------------------------- C2
\* C2 as claimed: the returned path is a shortest one, its move count is
\* the breadth-first distance from the start state to the goal.
C2_PathIsShortest ==
  (Returned /\ ret = "path") => MoveCount = StartDistance

\* C2 as amended: for a start state reachable from the goal the returned
\* path is never shorter than the breadth-first distance and exceeds it by
\* an even number of moves (possibly zero).
C2_PathAtLeastShortest ==
  (Returned /\ ret = "path") =>
    LET d == StartDistance
    IN  /\ d >= 0
        /\ MoveCount >= d
        /\ (MoveCount - d) % 2 = 0

\* A path longer than the breadth-first distance was returned.
C2_Witness ==
  /\ Returned /\ ret = "path"
  /\ StartDistance >= 0
  /\ MoveCount > StartDistance

\* ------------------------------------------------------------------- C3
RECURSIVE Factorial(_)
Factorial(k) == IF k = 0 THEN 1 ELSE k * Factorial(k - 1)

\* The number of arrangements of an n x n board.
Arrangements(n) == Factorial(n * n)

RECURSIVE SumOver(_, _)
SumOver(S, d) ==
  IF S = {} THEN 0
  ELSE LET k == CHOOSE x \in S : TRUE
       IN  d[k] + SumOver(S \ {k}, d)

\* How far the g_score map d is from "every arrangement at distance 0":
\* a new key and a lowered g_score both shrink it.
Slack(d, n) ==
  Arrangements(n) * Arrangements(n)
    - SumOver(DOMAIN d, [k \in DOMAIN d |-> Arrangements(n) - d[k]])

\* A natural number that every pop lowers by one and every push by at least
\* one more than the entry it adds to a heap.
Measure ==
  2 * (Slack(g_score_forward, PUZZLE_DIM) + Slack(g_score_backward, PUZZLE_DIM))
    + BagCardinality(open_forward) + BagCardinality(open_backward)

UnreachableStart == pc # "randomize" /\ StartDistance < 0

\* C3: called on an arrangement that no sequence of legal moves connects to
\* the goal, bidirectional_a_star never raises (a KeyError on g_score is
\* the one exception its statements can raise), every step of its loop
\* lowers a natural number (so the loop ends after finitely many steps), no
\* meeting state is ever recorded, and what it returns is
\* (None, nodes_evaluated).
C3_UnreachableReturnsNone ==
  /\ [](UnreachableStart =>
          /\ pc # "raised"
          /\ Measure >= 0
          /\ meeting_node = None
          /\ Returned => ret = "none")
  /\ [][(UnreachableStart /\ pc \in {"loop", "bwd"} /\ pc' \in {"loop", "bwd"})
          => Measure' < Measure]_vars

\* The search of an unreachable start state ran both frontiers and returned
\* None.
C3_Witness ==
  /\ Returned /\ ret = "none"
  /\ UnreachableStart
  /\ pops_forward > 1 /\ pops_backward > 1

\* ------------------------------------------------------------------- C4
\* C4: a start state that is_solvable accepts is never answered with
\* (None, nodes_evaluated).
C4_SolvableStartFindsPath ==
  (Returned /\ is_solvable(initial_state, PUZZLE_DIM)) => ret = "path"

\* ------------------------------------------------------------------- C5
\* C5: is_solvable holds of a state exactly when legal moves connect the
\* state to the goal, on boards of even and of odd size.
C5_SolvableIffReachable ==
  \A s \in {state, initial_state} :
    is_solvable(s, PUZZLE_DIM) <=> ReachableFromGoal(s, PUZZLE_DIM)

\* ------------------------------------------------------------------- C6
\* C6: is_solvable holds of the goal and of every state randomize_puzzle's
\* walk reaches after an even number of moves, so main never rejects the
\* state the walk ends in.
C6_EvenWalkSolvable ==
  /\ is_solvable(GoalState(PUZZLE_DIM), PUZZLE_DIM)
  /\ (pc = "randomize" /\ steps % 2 = 0) => is_solvable(state, PUZZLE_DIM)

\* ------------------------------------------------------------------- C7
StartIsGoal == pc # "randomize" /\ initial_state = GoalState(PUZZLE_DIM)

\* C7: started on the goal state, the search ends within the first loop
\* iteration (one forward pop, one backward pop) and returns the path that
\* consists of the goal state alone.
C7_GoalStartZeroMoves ==
  StartIsGoal =>
    /\ pc # "raised"
    /\ pops_forward <= 1 /\ pops_backward <= 1
    /\ (pops_forward = 1 /\ pops_backward = 1) => pc \in {"after", "done"}
    /\ Returned =>
         /\ ret = "path"
         /\ full_path = << tobytes(GoalState(PUZZLE_DIM), PUZZLE_DIM) >>
         /\ MoveCount = 0
         /\ pops_forward = 1 /\ pops_backward = 1

\* The search was started on the goal by main (the walk came back to it)
\* and has returned.
C7_Witness == StartIsGoal /\ Returned /\ entry = "main" /\ PUZZLE_DIM = 3

\* ------------------------------------------------------------------- C8
OneMoveFromGoal ==
  pc # "randomize" /\ LegalMove(initial_state, GoalState(PUZZLE_DIM), PUZZLE_DIM)

\* C8: started one legal move away from the goal, the search returns the
\* path [start, goal], and nodes_evaluated is at least the number of
\* neighbours of the start plus the number of neighbours of the goal.
C8_OneMoveStart ==
  (OneMoveFromGoal /\ Returned) =>
    /\ ret = "path"
    /\ full_path = << tobytes(initial_state, PUZZLE_DIM),
                      tobytes(GoalState(PUZZLE_DIM), PUZZLE_DIM) >>
    /\ MoveCount = 1
    /\ nodes_evaluated >=
         Cardinality(LegalSuccessors(initial_state, PUZZLE_DIM))
           + Cardinality(LegalSuccessors(GoalState(PUZZLE_DIM), PUZZLE_DIM))

\* A search started one move away from the 3x3 goal has returned.
C8_Witness == OneMoveFromGoal /\ Returned /\ PUZZLE_DIM = 3

\* ------------------------------------------------------------------- C9
\* The move count the notebook records for its 3x3 run.
RecordedQuality == 22

\* C9: for the start state 0 3 1 / 6 7 5 / 4 8 2 the search returns a path
\* that ends in the goal and whose move count, the recorded 22, is the
\* minimum number of legal moves from that state to the goal.
C9_ScenarioOptimal ==
  (Returned /\ PUZZLE_DIM = 3 /\ initial_state = ScenarioState) =>
    /\ ret = "path"
    /\ PathStates[Len(full_path)] = reshape(<< 1, 2, 3, 4, 5, 6, 7, 8, 0 >>, 3)
    /\ MoveCount = RecordedQuality
    /\ MoveCount = StartDistance

\* The search of the recorded start state has returned.
C9_Witness ==
  Returned /\ PUZZLE_DIM = 3 /\ initial_state = ScenarioState /\ ret = "path"

\* ------------------------------------------------------------------ C11
\* s holds each of 0 .. n*n-1 exactly once: its n*n cells hold n*n values.
IsArrangement(s, n) ==
  /\ DOMAIN s = Pos(n)
  /\ { s[p] : p \in Pos(n) } = 0 .. n * n - 1

\* The cell of s that holds v.
PosOf(s, v, n) == CHOOSE p \in Pos(n) : s[p] = v

\* The sum, over the tiles 1 .. n*n-1 (the blank is no tile), of the
\* distance between the tile's cell in s and its cell in t.
RECURSIVE TileDistance(_, _, _, _)
TileDistance(s, t, n, v) ==
  IF v = 0 THEN 0
  ELSE Abs(PosOf(s, v, n)[1] - PosOf(t, v, n)[1])
         + Abs(PosOf(s, v, n)[2] - PosOf(t, v, n)[2])
         + TileDistance(s, t, n, v - 1)

ManhattanBetween(s, t, n) == TileDistance(s, t, n, n * n - 1)

\* The states the program holds: main's state, the start state and every
\* state either direction has given a g_score.
SeenKeys == (DOMAIN g_score_forward) \cup (DOMAIN g_score_backward)

SeenStates ==
  {state, initial_state} \cup { frombuffer(k, PUZZLE_DIM) : k \in SeenKeys }

\* C11: for every arrangement s of the board manhattan_distance(s) is a
\* natural number, it is 0 exactly when s is the goal state, and it is the
\* sum of the distances of the tiles 1 .. n*n-1 from their goal cells, the
\* blank adding nothing.
C11_ManhattanZeroIffGoal ==
  \A s \in SeenStates :
    IsArrangement(s, PUZZLE_DIM) =>
      /\ manhattan_distance(s, PUZZLE_DIM) \in Nat
      /\ manhattan_distance(s, PUZZLE_DIM) = 0 <=> s = GoalState(PUZZLE_DIM)
      /\ manhattan_distance(s, PUZZLE_DIM)
           = ManhattanBetween(s, GoalState(PUZZLE_DIM), PUZZLE_DIM)

\* A running 3x3 search has measured the goal (distance 0) and a state
\* whose blank is off its goal cell (distance above 2).
C11_Witness ==
  /\ PUZZLE_DIM = 3
  /\ nodes_evaluated > 0
  /\ GoalState(3) \in SeenStates
  /\ \E s \in SeenStates :
       /\ s[<< 2, 2 >>] # 0
       /\ manhattan_distance(s, 3) > 2

\* ------------------------------------------------------------------ C12
ChangedCells(s, t, n) == {p \in Pos(n) : s[p] # t[p]}

\* The keys held by a heap.
HeapKeys(heap) == { e[2] : e \in BagToSet(heap) }

\* Every key stored by the search: frontiers, g_score maps, explored sets.
StoredKeys ==
  HeapKeys(open_forward) \cup HeapKeys(open_backward) \cup SeenKeys
    \cup explored_forward \cup explored_backward

\* The states about to be moved: main's state, the start state and the
\* states at the top of the two frontiers.
MovedStates ==
  {state, initial_state}
    \cup (IF NonEmpty(open_forward)
          THEN {frombuffer(HeapMin(open_forward)[2], PUZZLE_DIM)} ELSE {})
    \cup (IF NonEmpty(open_backward)
          THEN {frombuffer(HeapMin(open_backward)[2], PUZZLE_DIM)} ELSE {})

\* C12: for an arrangement s and every action m of available_actions(s),
\* do_action(s, m) differs from s in exactly two cells, one of them the
\* cell of the blank of s, and is again an arrangement (each of 0 .. n*n-1
\* once, so one blank); hence every key a frontier, a g_score map or an
\* explored set holds is the key of an arrangement.
C12_MoveKeepsArrangement ==
  /\ \A s \in MovedStates :
       IsArrangement(s, PUZZLE_DIM) =>
         \A i \in 1 .. Len(available_actions(s, PUZZLE_DIM)) :
           LET t == do_action(s, available_actions(s, PUZZLE_DIM)[i])
           IN  /\ Cardinality(ChangedCells(s, t, PUZZLE_DIM)) = 2
               /\ PosOf(s, 0, PUZZLE_DIM) \in ChangedCells(s, t, PUZZLE_DIM)
               /\ t[PosOf(s, 0, PUZZLE_DIM)] # 0
               /\ IsArrangement(t, PUZZLE_DIM)
  /\ \A k \in StoredKeys : IsArrangement(frombuffer(k, PUZZLE_DIM), PUZZLE_DIM)

\* A 3x3 search holds more than twenty keys while its blank-in-the-middle
\* state (four actions) is at the top of the forward frontier.
C12_Witness ==
  /\ PUZZLE_DIM = 3
  /\ pc = "loop"
  /\ Cardinality(StoredKeys) > 20
  /\ NonEmpty(open_forward)
  /\ frombuffer(HeapMin(open_forward)[2], 3)[<< 1, 1 >>] = 0

\* ------------------------------------------------------------------ C13
\* The entries a step has pushed into a heap.
PushedInto(old, new) ==
  { e \in BagToSet(new) : CopiesIn(e, new) > CopiesIn(e, old) }

\* C13: every entry pushed into the backward frontier (the root included)
\* has the priority g_score + Manhattan distance from its state to the
\* start state, and every entry pushed into the forward frontier has the
\* priority g_score + Manhattan distance from its state to the goal.
C13_BackwardPriorityToStart ==
  [][/\ \A e \in PushedInto(open_backward, open_backward') :
          e[1] = g_score_backward'[e[2]]
                   + ManhattanBetween(frombuffer(e[2], PUZZLE_DIM), initial_state,
                                      PUZZLE_DIM)
     /\ \A e \in PushedInto(open_forward, open_forward') :
          e[1] = g_score_forward'[e[2]]
                   + ManhattanBetween(frombuffer(e[2], PUZZLE_DIM),
                                      GoalState(PUZZLE_DIM), PUZZLE_DIM)]_vars

\* ------------------------------------------------------------------ C14
\* The entry at the top of a heap is a stale duplicate: the g_score it was
\* pushed with (its priority less the heuristic of its state) is not the
\* g_score its state has now.
StaleTop(open, g) ==
  /\ NonEmpty(open)
  /\ HeapMin(open)[2] \in DOMAIN g
  /\ HeapMin(open)[1] - manhattan_distance(frombuffer(HeapMin(open)[2], PUZZLE_DIM),
                                           PUZZLE_DIM)
       # g[HeapMin(open)[2]]

\* C14: the pop of a stale duplicate does nothing but remove the entry: it
\* adds no state to the direction's explored set, records no meeting
\* state, relaxes and enqueues no neighbour (g_score, came_from and
\* nodes_evaluated stay as they are).
C14_StalePopDiscarded ==
  [][/\ (pc = "loop" /\ NonEmpty(open_backward)
          /\ StaleTop(open_forward, g_score_forward)) =>
          /\ explored_forward' = explored_forward
          /\ meeting_node' = meeting_node
          /\ open_forward' = HeapRest(open_forward)
          /\ g_score_forward' = g_score_forward
          /\ came_from_forward' = came_from_forward
          /\ nodes_evaluated' = nodes_evaluated
     /\ (pc = "bwd" /\ StaleTop(open_backward, g_score_backward)) =>
          /\ explored_backward' = explored_backward
          /\ meeting_node' = meeting_node
          /\ open_backward' = HeapRest(open_backward)
          /\ g_score_backward' = g_score_backward
          /\ came_from_backward' = came_from_backward
          /\ nodes_evaluated' = nodes_evaluated]_vars

\* A direction has popped more entries than it has explored states: one of
\* its pops was of a duplicate (the entries of one state differ in their
\* g_score, so the later of them was stale), and the search went on.
C14_Witness ==
  /\ pc \in {"loop", "bwd"}
  /\ \/ pops_forward > Cardinality(explored_forward)
     \/ pops_backward > Cardinality(explored_backward)

\* ------------------------------------------------------------------ C15
\* The search has been set up (its variables hold this call's values).
InSearch == pc \in {"loop", "bwd", "after", "done", "raised"}

\* The entries pushed so far: those still in a frontier and those popped.
Pushes ==
  BagCardinality(open_forward) + pops_forward
    + BagCardinality(open_backward) + pops_backward

\* C15: nodes_evaluated is the number of frontier pushes made inside the
\* main loop (all pushes but the two root pushes), that is the number of
\* successful relaxations of both directions; a pop leaves it alone (it
\* moves one entry from "in a frontier" to "popped"); the count returned
\* with the path or with None is this number.
C15_NodesEvaluatedCountsPushes ==
  InSearch => nodes_evaluated = Pushes - 2

\* A search has returned a path after more than twenty relaxations, with
\* pops that pushed nothing and entries still waiting in both frontiers.
C15_Witness ==
  /\ Returned /\ ret = "path"
  /\ nodes_evaluated > 20
  /\ nodes_evaluated # pops_forward + pops_backward
  /\ NonEmpty(open_forward) /\ NonEmpty(open_backward)

\* ------------------------------------------------------------------ C16
\* C16: the directions pop in strict alternation, the forward one first:
\* the forward pops are as many as the backward pops or one more; the
\* forward direction pops only when the counts are equal (its last pop has
\* been answered by a backward pop), the backward direction only when the
\* forward count is one ahead; whatever the sizes and priorities of the
\* frontiers.
C16_StrictAlternation ==
  /\ [](InSearch => pops_forward - pops_backward \in {0, 1})
  /\ [][/\ pops_forward' # pops_forward =>
             /\ pops_forward' = pops_forward + 1
             /\ pops_backward' = pops_backward
             /\ pops_forward = pops_backward
        /\ pops_backward' # pops_backward =>
             /\ pops_backward' = pops_backward + 1
             /\ pops_forward' = pops_forward
             /\ pops_forward = pops_backward + 1]_vars

\* The forward direction has taken its fourth or a later turn and holds the
\* larger frontier with the worse best priority; the backward direction,
\* one pop behind, is about to take its turn.
C16_Witness ==
  /\ pc = "bwd"
  /\ pops_forward > 3 /\ pops_forward = pops_backward + 1
  /\ NonEmpty(open_forward) /\ NonEmpty(open_backward)
  /\ BagCardinality(open_forward) > BagCardinality(open_backward) + 3
  /\ HeapMin(open_forward)[1] > HeapMin(open_backward)[1]

\* ------------------------------------------------------------------ C17
Running == pc \in {"loop", "bwd"}

\* C17: while the main loop runs, no state is in both explored sets and no
\* meeting state is recorded; the loop is left at the first pop of a state
\* the other direction has explored, that state is meeting_node and the
\* only state in both explored sets; a returned path has such a
\* meeting_node, and a search that ends without one has disjoint explored
\* sets.
C17_StopsAtFirstCommonState ==
  /\ Running =>
       /\ explored_forward \cap explored_backward = {}
       /\ meeting_node = None
  /\ (InSearch /\ meeting_node # None) =>
       /\ pc \in {"after", "done"}
       /\ explored_forward \cap explored_backward = {meeting_node}
  /\ (InSearch /\ ~Running /\ meeting_node = None) =>
       explored_forward \cap explored_backward = {}
  /\ (Returned /\ ret = "path") => meeting_node # None

\* A path was returned after both directions explored more than five
\* states each.
C17_Witness ==
  /\ Returned /\ ret = "path"
  /\ Cardinality(explored_forward) > 5
  /\ Cardinality(explored_backward) > 5
  /\ meeting_node \in explored_forward \cap explored_backward

\* ------------------------------------------------------------------ C18
\* The g_score map g2 holds every key of g, with a g_score no higher.
NoWorse(g, g2) ==
  /\ (DOMAIN g) \subseteq (DOMAIN g2)
  /\ \A k \in DOMAIN g : g2[k] <= g[k]

\* One step of the loop goes down in a well-founded order: a g_score map
\* gains a key or lowers a g_score (over the finitely many arrangements and
\* the natural numbers that can happen only finitely often), or the maps
\* stay as they are and the two frontiers together lose an entry.
LoopStepDescends ==
  /\ NoWorse(g_score_forward, g_score_forward')
  /\ NoWorse(g_score_backward, g_score_backward')
  /\ \/ g_score_forward' # g_score_forward
     \/ g_score_backward' # g_score_backward
     \/ BagCardinality(open_forward') + BagCardinality(open_backward')
          < BagCardinality(open_forward) + BagCardinality(open_backward)

\* Every entry pushed is for a state that is new to the direction or whose
\* g_score the step has lowered.
PushOnlyOnDecrease(open, openNext, g, gNext) ==
  \A e \in PushedInto(open, openNext) :
    e[2] \notin DOMAIN g \/ gNext[e[2]] < g[e[2]]

\* C18: for every start arrangement, reachable from the goal or not, the
\* main loop ends: it raises nothing, every g_score is a natural number
\* of an arrangement, a state is pushed again only when its g_score has
\* dropped, every step after which the loop still runs goes down in a
\* well-founded order, and the loop is left only with a meeting state or
\* an empty frontier.
C18_LoopTerminates ==
  /\ [](InSearch =>
          /\ pc # "raised"
          /\ \A k \in DOMAIN g_score_forward : g_score_forward[k] \in Nat
          /\ \A k \in DOMAIN g_score_backward : g_score_backward[k] \in Nat
          /\ \A k \in SeenKeys : IsArrangement(frombuffer(k, PUZZLE_DIM), PUZZLE_DIM)
          /\ pc \in {"after", "done"} =>
               \/ meeting_node # None
               \/ ~NonEmpty(open_forward)
               \/ ~NonEmpty(open_backward))
  /\ [][Running =>
          /\ PushOnlyOnDecrease(open_forward, open_forward',
                                g_score_forward, g_score_forward')
          /\ PushOnlyOnDecrease(open_backward, open_backward',
                                g_score_backward, g_score_backward')
          /\ Running' => LoopStepDescends]_vars

\* A search has ended in which a direction pushed more entries than it has
\* states: a state was pushed again after its g_score had dropped.
C18_Witness ==
  /\ Returned
  /\ \/ BagCardinality(open_forward) + pops_forward
          > Cardinality(DOMAIN g_score_forward)
     \/ BagCardinality(open_backward) + pops_backward
          > Cardinality(DOMAIN g_score_backward)

\* ------------------------------------------------------------------ C19
\* The minimum number of legal moves from s to t (-1: none exists).
Distance(s, t, n) == BreadthFirst({s}, {s}, 0, {t}, {t}, 0, n)

\* The g_score of the state at the top of a heap is the minimum number of
\* legal moves from root to that state.
TopIsOptimal(open, g, root) ==
  LET k == HeapMin(open)[2]
  IN  /\ k \in DOMAIN g
      /\ g[k] = Distance(root, frombuffer(k, PUZZLE_DIM), PUZZLE_DIM)

\* C19: in each direction, with the heuristic the direction uses, the
\* state a pop takes from the frontier has as its g_score the minimum
\* number of legal moves from the direction's root (the start state
\* forward, the goal backward); no step changes the g_score of a state
\* its direction has explored.
C19_PoppedScoreIsOptimal ==
  /\ []((pc = "loop" /\ NonEmpty(open_forward) /\ NonEmpty(open_backward)) =>
          TopIsOptimal(open_forward, g_score_forward, initial_state))
  /\ []((pc = "bwd" /\ NonEmpty(open_backward)) =>
          TopIsOptimal(open_backward, g_score_backward, GoalState(PUZZLE_DIM)))
  /\ [][Running =>
          /\ \A k \in explored_forward : g_score_forward'[k] = g_score_forward[k]
          /\ \A k \in explored_backward : g_score_backward'[k] = g_score_backward[k]]_vars

\* The forward direction is about to pop a state at least eight moves from
\* the start state, in a search that has lowered a g_score before.
C19_Witness ==
  /\ pc = "loop" /\ NonEmpty(open_forward) /\ NonEmpty(open_backward)
  /\ g_score_forward[HeapMin(open_forward)[2]] >= 8
  /\ BagCardinality(open_forward) + pops_forward
       > Cardinality(DOMAIN g_score_forward)

\* ------------------------------------------------------------------ C20
\* One direction's maps cover its frontier: every key in the heap or the
\* explored set has a g_score, g_score and came_from have the same keys,
\* and every parent recorded is None or a key of came_from.
MapsCover(open, g, came, explored) ==
  /\ HeapKeys(open) \subseteq DOMAIN g
  /\ explored \subseteq DOMAIN g
  /\ DOMAIN g = DOMAIN came
  /\ \A k \in DOMAIN came : came[k] = None \/ came[k] \in DOMAIN came

\* C20: throughout the search every key in a direction's frontier has an
\* entry in that direction's g_score and came_from, the two maps have the
\* same keys, so g_score[current] after a pop raises no KeyError, and the
\* parent chains walked from meeting_node stay inside came_from.
C20_FrontierKeysHaveScores ==
  InSearch =>
    /\ MapsCover(open_forward, g_score_forward, came_from_forward, explored_forward)
    /\ MapsCover(open_backward, g_score_backward, came_from_backward,
                 explored_backward)
    /\ pc # "raised"
    /\ meeting_node # None =>
         meeting_node \in (DOMAIN came_from_forward) \cap (DOMAIN came_from_backward)

\* The loop has been left with a meeting state while more than ten keys
\* wait in each frontier: the parent chains are about to be walked.
C20_Witness ==
  /\ pc = "after"
  /\ meeting_node # None
  /\ Cardinality(HeapKeys(open_forward)) > 10
  /\ Cardinality(HeapKeys(open_backward)) > 10

\* ------------------------------------------------------------------ C21
\* Along came_from every state's g_score is one more than its parent's,
\* and the one state without a parent is root, with g_score 0.
ChainCountsMoves(g, came, root) ==
  \A k \in DOMAIN came :
    /\ k \in DOMAIN g
    /\ IF came[k] = None
       THEN k = tobytes(root, PUZZLE_DIM) /\ g[k] = 0
       ELSE came[k] \in DOMAIN g /\ g[k] = g[came[k]] + 1

\* C21: in both directions each state's g_score is exactly one more than
\* its parent's, the chains end at the direction's root (g_score 0), and
\* the move count of a returned path is g_score_forward[meeting_node] +
\* g_score_backward[meeting_node], the lengths of the two chains.
C21_MoveCountIsScoreSum ==
  InSearch =>
    /\ ChainCountsMoves(g_score_forward, came_from_forward, initial_state)
    /\ ChainCountsMoves(g_score_backward, came_from_backward, GoalState(PUZZLE_DIM))
    /\ meeting_node # None =>
         /\ Len(Chain(came_from_forward, meeting_node))
              = g_score_forward[meeting_node] + 1
         /\ Len(Chain(came_from_backward, meeting_node))
              = g_score_backward[meeting_node] + 1
    /\ (Returned /\ ret = "path") =>
         MoveCount = g_score_forward[meeting_node] + g_score_backward[meeting_node]

\* A path was returned whose meeting state is more than two moves from
\* either root, after a search that lowered a g_score on its way.
C21_Witness ==
  /\ Returned /\ ret = "path"
  /\ g_score_forward[meeting_node] > 2
  /\ g_score_backward[meeting_node] > 2
  /\ \/ BagCardinality(open_forward) + pops_forward
          > Cardinality(DOMAIN g_score_forward)
     \/ BagCardinality(open_backward) + pops_backward
          > Cardinality(DOMAIN g_score_backward)

\* ------------------------------------------------------------------ C22
\* The entry at the top of a heap is for a state its direction has popped
\* before.
DuplicateTop(open, explored) ==
  NonEmpty(open) /\ HeapMin(open)[2] \in explored

\* C22: the pop of an entry for a state the same direction has popped and
\* expanded before removes that entry and changes nothing else: the
\* direction's g_score, came_from and explored set, nodes_evaluated and
\* meeting_node stay as they are, nothing is pushed, and the loop goes on
\* with the other direction's turn.
C22_DuplicatePopChangesNothing ==
  [][/\ (pc = "loop" /\ NonEmpty(open_backward)
          /\ DuplicateTop(open_forward, explored_forward)) =>
          /\ open_forward' = HeapRest(open_forward)
          /\ PushedInto(open_forward, open_forward') = {}
          /\ g_score_forward' = g_score_forward
          /\ came_from_forward' = came_from_forward
          /\ explored_forward' = explored_forward
          /\ nodes_evaluated' = nodes_evaluated
          /\ meeting_node' = meeting_node
          /\ pc' = "bwd"
     /\ (pc = "bwd" /\ DuplicateTop(open_backward, explored_backward)) =>
          /\ open_backward' = HeapRest(open_backward)
          /\ PushedInto(open_backward, open_backward') = {}
          /\ g_score_backward' = g_score_backward
          /\ came_from_backward' = came_from_backward
          /\ explored_backward' = explored_backward
          /\ nodes_evaluated' = nodes_evaluated
          /\ meeting_node' = meeting_node
          /\ pc' = "loop"]_vars

\* A direction is about to pop an entry for a state it has explored.
C22_Witness ==
  \/ /\ pc = "loop" /\ NonEmpty(open_backward)
     /\ DuplicateTop(open_forward, explored_forward)
  \/ /\ pc = "bwd"
     /\ DuplicateTop(open_backward, explored_backward)

====
